---- MODULE Spec2Model ----
(***************************************************************************)
(* Model of the newsletter ingestion pipeline of newsletter-rag:           *)
(*   - NewsletterDetector (newsletter_detector.py): detect and             *)
(*     filter_newsletters over a batch of EmailMessage records;            *)
(*   - TextChunker (embeddings.py): chunk over a CleanedContent.           *)
(*                                                                         *)
(* Representation of Python values                                         *)
(*   - A str field of a message is a sequence of tokens.  sender_email is  *)
(*     the concatenation of its tokens; sender, subject and the body are   *)
(*     words separated by single spaces.                                   *)
(*   - A float score is an integer number of hundredths (0.35 is 35).  The *)
(*     thresholds of the model are values at which the float comparison of *)
(*     every reachable score agrees with the comparison of hundredths.     *)
(*   - A document text is a sequence of one-character strings.             *)
(*   - A call that can raise returns a record with a field exc: "" when it *)
(*     returns normally, the exception's text when it raises.              *)
(***************************************************************************)
EXTENDS Integers, Sequences, FiniteSets, TLC

VARIABLES
    detector,   \* the NewsletterDetector instance: its attributes
    config,     \* the arguments its constructor was called with
    emails,     \* the batch of EmailMessage handed to the detector
    ret,        \* what the last call on the detector returned
    chunker,    \* the TextChunker instance: its attributes
    content,    \* the CleanedContent handed to the chunker
    out,        \* what the last call of chunk returned
    sync,       \* the run of sync_newsletters: its position and its locals
    store,      \* the VectorStore that add_chunks is called on
    handler     \* the ConversationHandler instance: its attributes

vars == <<detector, config, emails, ret, chunker, content, out, sync, store, handler>>

detVars == <<detector, config, emails, ret>>
chunkVars == <<chunker, content, out>>

-----------------------------------------------------------------------------
(* Python built-ins *)

Min(a, b) == IF a <= b THEN a ELSE b
Max(a, b) == IF a >= b THEN a ELSE b

\* the least and the greatest element of a non-empty set of integers
SetMin(S) == CHOOSE x \in S : \A y \in S : x <= y
SetMax(S) == CHOOSE x \in S : \A y \in S : x >= y

\* the elements of a set of integers in increasing order
Ascending(S) ==
    [k \in 1..Cardinality(S) |-> CHOOSE x \in S : Cardinality({y \in S : y < x}) = k - 1]

\* ''.join(tokens)
Join(s) ==
    LET J[i \in 0..Len(s)] == IF i = 0 THEN "" ELSE J[i - 1] \o s[i]
    IN J[Len(s)]

\* str.lower() on one token of the model's vocabulary
Lower(w) ==
    CASE w = "AMAZON" -> "amazon"
      [] w = "COM" -> "com"
      [] w = "Joe" -> "joe"
      [] w = "Tech" -> "tech"
      [] w = "Weekly" -> "weekly"
      [] w = "Hello" -> "hello"
      [] w = "Issue #12" -> "issue #12"
      [] w = "Shop now" -> "shop now"
      [] w = "List-Unsubscribe" -> "list-unsubscribe"
      [] w = "List-Unsubscribe-Post" -> "list-unsubscribe-post"
      [] w = "From" -> "from"
      [] OTHER -> w

LowerSeq(s) == [i \in 1..Len(s) |-> Lower(s[i])]

\* str.strip('>') on a token sequence: '>' is a token of its own
StripGt(s) ==
    LET kept == {i \in 1..Len(s) : s[i] # ">"}
    IN IF kept = {} THEN <<>> ELSE SubSeq(s, SetMin(kept), SetMax(kept))

\* re.search(pattern, word) for the lower-cased words of the model's
\* vocabulary: the patterns of the detector's lists, and the price
\* expression of _calculate_promotional_score, that match the word.
PRICE_RE == "\\$\\d+|%\\s*off|\\bsale\\b|\\bdeal\\b"

WordMatches(w) ==
    CASE w = "weekly" -> {"weekly"}
      [] w = "digest" -> {"digest"}
      [] w = "analysis" -> {"analysis"}
      [] w = "insights" -> {"insights?"}
      [] w = "trends" -> {"trends?"}
      [] w = "issue #12" -> {"issue\\s*#?\\d+"}
      [] w = "50% off" -> {"\\d+%\\s*off", PRICE_RE}
      [] w = "today only" -> {"today\\s+only"}
      [] w = "sale" -> {"sale\\b", PRICE_RE}
      [] w = "deal" -> {"deal\\b", PRICE_RE}
      [] w = "discount" -> {"discount"}
      [] w = "$5" -> {"\\$\\d+(\\.\\d{2})?", PRICE_RE}
      [] w = "shop now" -> {"shop\\s+now"}
      [] w = "buy now" -> {"buy\\s+now"}
      [] w = "click here" -> {"click\\s+here"}
      [] w = "limited time" -> {"limited\\s+time", "limited\\s+(time|stock|availability)"}
      [] OTHER -> {}

\* the patterns re.search finds in a lower-cased text: no pattern of the
\* detector matches across two words of the vocabulary
Found(text) == UNION {WordMatches(text[i]) : i \in 1..Len(text)}

-----------------------------------------------------------------------------
(* The message body: a sequence of runs [w |-> word, n |-> repetitions],   *)
(* every word followed by one space except the last one of the body.       *)

\* len(word)
TokenLen(w) ==
    CASE w = "lorem" -> 5
      [] w = "data" -> 4
      [] w = "$5" -> 2
      [] w = "shop now" -> 8
      [] w = "Shop now" -> 8
      [] w = "buy now" -> 7
      [] w = "click here" -> 10
      [] w = "limited time" -> 12
      [] OTHER -> 1

\* the offsets in the token at which a whitespace-separated word starts
TokenWordStarts(w) ==
    CASE w = "shop now" -> {0, 5}
      [] w = "Shop now" -> {0, 5}
      [] w = "buy now" -> {0, 4}
      [] w = "click here" -> {0, 6}
      [] w = "limited time" -> {0, 8}
      [] OTHER -> {0}

\* the offset of the first character of every run, and of the end
RunStarts(body) ==
    LET Start[i \in 1..(Len(body) + 1)] ==
            IF i = 1 THEN 0
            ELSE Start[i - 1] + body[i - 1].n * (TokenLen(body[i - 1].w) + 1)
    IN [i \in 1..(Len(body) + 1) |-> Start[i]]

\* of run r, room characters of which are kept: the number of whole tokens
\* kept (the last token of a run is whole without the space that follows
\* it), and the number of characters kept of a token cut short
RunKept(r, room) ==
    LET width == TokenLen(r.w) + 1
        whole == Min(r.n, room \div width)
        left == room - whole * width
    IN IF whole = r.n THEN [n |-> whole, cut |-> 0]
       ELSE IF left >= TokenLen(r.w) THEN [n |-> whole + 1, cut |-> 0]
       ELSE [n |-> whole, cut |-> left]

\* the slice made of what is kept of every run
SliceOf(body, kept) ==
    LET m == Cardinality({i \in 1..Len(body) : kept[i].n > 0})
        cut == {i \in 1..Len(body) : kept[i].cut > 0}
    IN [ runs |-> [i \in 1..m |-> [w |-> body[i].w, n |-> kept[i].n]],
         part |-> IF cut = {} THEN <<>>
                  ELSE <<[w |-> body[SetMin(cut)].w, cut |-> kept[SetMin(cut)].cut]>> ]

KeptOfRuns(body, limit, starts) ==
    [i \in 1..Len(body) |-> RunKept(body[i], Max(limit - starts[i], 0))]

\* body[:limit]: the runs of whole tokens kept, and the token the cut falls
\* in, if any, with the number of its characters kept
SliceBody(body, limit) == SliceOf(body, KeptOfRuns(body, limit, RunStarts(body)))

\* the words of a sliced body that a pattern can match: a token cut short
\* matches no pattern of the detector
SliceWords(slice) == [i \in 1..Len(slice.runs) |-> slice.runs[i].w]

\* len(text.split()) of a sliced body
WordCount(slice) ==
    LET Sum[i \in 0..Len(slice.runs)] ==
            IF i = 0 THEN 0
            ELSE Sum[i - 1]
                 + slice.runs[i].n * Cardinality(TokenWordStarts(slice.runs[i].w))
    IN Sum[Len(slice.runs)]
       + (IF slice.part = <<>> THEN 0
          ELSE Cardinality({o \in TokenWordStarts(slice.part[1].w) :
                               o < slice.part[1].cut}))

-----------------------------------------------------------------------------
(* NewsletterDetector *)

DEFAULT_NEWSLETTER_THRESHOLD == 40
DEFAULT_PROMOTIONAL_THRESHOLD == 50
DEFAULT_QUALITY_THRESHOLD == 30

\* score increments, in hundredths
W_UNSUBSCRIBE == 35
W_NEWSLETTER_DOMAIN == 35
W_SENDER_PATTERN == 20
W_SUBJECT_PATTERN == 25
W_PROMO_SENDER == 30
W_PROMO_SUBJECT == 15
MAX_PROMO_SUBJECT_HITS == 3
W_PROMO_CONTENT == 10
MAX_PROMO_CONTENT_HITS == 4
W_PRICE == 25
W_WHITELISTED == 40
W_QUALITY_SUBJECT == 15
MAX_QUALITY_SUBJECT_HITS == 2
W_SUBSTANTIAL == 15
W_DECENT == 10
W_SHORT_PENALTY == 20
WORDS_SUBSTANTIAL == 500
WORDS_DECENT == 200
WORDS_SHORT == 100
PROMO_BODY_CHARS == 2000
QUALITY_BODY_CHARS == 3000
SCORE_MAX == 100

\* NewsletterDetector.__init__
NewsletterDetector(newsletter_threshold, promotional_threshold, quality_threshold) ==
    [ newsletter_threshold |-> newsletter_threshold,
      promotional_threshold |-> promotional_threshold,
      quality_threshold |-> quality_threshold,
      newsletter_domains |->
        { "substack.com", "beehiiv.com", "mailchimp.com",
          "convertkit.com", "buttondown.email", "revue.co",
          "ghost.io", "campaignmonitor.com", "mailerlite.com",
          "sendinblue.com", "getrevue.co", "emailoctopus.com",
          "benchmarkemail.com", "moosend.com", "drip.com",
          "klaviyo.com", "constantcontact.com", "hubspot.com",
          "medium.com", "linkedin.com", "morningbrew.com",
          "axios.com", "thenewsette.com", "thehustle.co" },
      newsletter_sender_patterns |->
        << "newsletter", "digest", "weekly", "daily",
           "updates?", "bulletin", "dispatch", "brief",
           "roundup", "recap", "summary", "edition",
           "insider", "report", "review", "bytes" >>,
      newsletter_subject_patterns |->
        << "issue\\s*#?\\d+", "edition\\s*#?\\d+", "vol\\.?\\s*\\d+",
           "#\\d+\\s*[-:\\u2014]", "weekly", "daily", "monthly",
           "digest", "roundup", "newsletter", "this\\s+week",
           "top\\s+\\d+", "best\\s+of", "highlights" >>,
      promotional_subject_patterns |->
        << "\\d+%\\s*off", "save\\s+\\$?\\d+", "discount", "sale\\b",
           "deal\\b", "offer\\b", "promo\\b", "coupon", "voucher",
           "limited\\s+time", "expires?\\b", "ends\\s+(today|soon|tonight)",
           "last\\s+chance", "final\\s+(hours?|days?)", "hurry",
           "don\\'?t\\s+miss", "act\\s+(now|fast)", "today\\s+only",
           "flash\\s+sale", "clearance", "free\\s+shipping",
           "exclusive\\s+(offer|deal|access)", "special\\s+(offer|deal|price)",
           "order\\s+(confirmed?|shipped|delivered)",
           "shipping\\s+(update|confirmation)", "tracking",
           "your\\s+(order|package|delivery)", "invoice",
           "receipt", "payment\\s+(received|confirmed)",
           "verify\\s+(your|email)", "confirm\\s+(your|email)",
           "password\\s+(reset|changed)", "account\\s+(update|alert)",
           "security\\s+(alert|notice)", "login\\s+(alert|notification)",
           "(new\\s+)?(follower|like|comment|mention|reply)",
           "tagged\\s+you", "connection\\s+request", "friend\\s+request",
           "reminder:", "meeting\\s+(invite|reminder|update)",
           "survey", "feedback", "review\\s+us", "rate\\s+us",
           "we\\s+miss\\s+you", "come\\s+back", "abandoned\\s+cart" >>,
      promotional_content_patterns |->
        << "shop\\s+now", "buy\\s+now", "order\\s+now",
           "click\\s+here", "sign\\s+up\\s+now",
           "\\$\\d+(\\.\\d{2})?", "\\u00a3\\d+", "\\u20ac\\d+",
           "limited\\s+(time|stock|availability)",
           "while\\s+supplies\\s+last", "selling\\s+fast" >>,
      promotional_senders |->
        { "noreply", "no-reply", "donotreply", "do-not-reply",
          "notifications", "notification", "alerts", "alert",
          "mailer", "marketing", "promo", "promotions",
          "deals", "offers", "sales", "store", "shop",
          "orders", "order", "shipping", "delivery",
          "support", "help", "info", "billing", "invoice" },
      quality_subject_patterns |->
        << "analysis", "insights?", "deep\\s+dive", "breakdown",
           "explained", "how\\s+to", "why\\b", "guide\\s+to",
           "lessons?\\s+(from|learned)", "takeaways?",
           "industry", "market", "trends?", "forecast",
           "report\\b", "research", "study", "findings",
           "startup", "venture", "funding", "investment",
           "technology", "innovation", "future\\s+of",
           "opinion", "perspective", "essay", "commentary",
           "interview", "conversation\\s+with",
           "reading\\s+list", "must\\s+read", "curated" >>,
      blacklisted_domains |->
        { "amazon.com", "ebay.com", "walmart.com", "target.com",
          "doordash.com", "ubereats.com", "grubhub.com",
          "booking.com", "expedia.com", "airbnb.com",
          "uber.com", "lyft.com",
          "facebookmail.com", "twitter.com", "x.com",
          "instagram.com", "tiktok.com", "pinterest.com",
          "netflix.com", "spotify.com", "youtube.com",
          "paypal.com", "venmo.com", "cashapp.com" },
      whitelisted_domains |->
        { "substack.com", "beehiiv.com", "buttondown.email",
          "ghost.io", "morningbrew.com", "axios.com", "thehustle.co" } ]

\* reading attribute attr of the message raises: the message's field
\* broken names the attribute whose read fails ("" when none does)
Raises(email, attr) == email.broken = attr

\* the index of the last '@' of a token sequence holding one
LastAt(s) == SetMax({i \in 1..Len(s) : s[i] = "@"})

\* _extract_domain taking what follows the first '@' instead of the last
extract_domain_first_at(email) ==
    IF email = <<>> THEN ""
    ELSE IF \E i \in 1..Len(email) : email[i] = "@"
         THEN Join(StripGt(LowerSeq(SubSeq(email,
                  SetMin({i \in 1..Len(email) : email[i] = "@"}) + 1, Len(email)))))
         ELSE ""

\* NewsletterDetector._extract_domain
extract_domain(email) ==
    IF email = <<>> THEN ""
    ELSE IF \E i \in 1..Len(email) : email[i] = "@"
         THEN Join(StripGt(LowerSeq(SubSeq(email, LastAt(email) + 1, Len(email)))))
         ELSE ""

\* NewsletterDetector._extract_sender_name
extract_sender_name(sender) ==
    IF sender = <<>> THEN <<>>
    ELSE IF \E i \in 1..Len(sender) : sender[i] = "<"
         THEN LowerSeq(SubSeq(sender, 1, SetMin({i \in 1..Len(sender) : sender[i] = "<"}) - 1))
         ELSE LowerSeq(sender)

\* the return value of _check_patterns
PatternMatches(matches) == [matched |-> Len(matches) > 0, matches |-> matches]

\* the for loop of _check_patterns: the patterns that re.search finds
MatchingPatterns(patterns, found) == SelectSeq(patterns, LAMBDA p : p \in found)

\* NewsletterDetector._check_patterns
check_patterns(text, patterns) ==
    IF text = <<>> THEN PatternMatches(<<>>)
    ELSE PatternMatches(MatchingPatterns(patterns, Found(LowerSeq(text))))

\* 'list-unsubscribe' in s, for the lower-cased header strings of the model
ContainsUnsubscribe(s) == s \in {"list-unsubscribe", "list-unsubscribe-post"}

\* the isinstance branches of _has_unsubscribe_header
HeadersHaveUnsubscribe(headers) ==
    IF headers.kind = "none" \/ headers.items = <<>> THEN FALSE
    ELSE IF headers.kind = "list"
         THEN \E i \in 1..Len(headers.items) :
                  \/ /\ headers.items[i].t = "dict"
                     /\ Lower(headers.items[i].name) = "list-unsubscribe"
                  \/ /\ headers.items[i].t = "str"
                     /\ ContainsUnsubscribe(Lower(headers.items[i].name))
    ELSE IF headers.kind = "dict"
         THEN \E i \in 1..Len(headers.items) :
                  Lower(headers.items[i].name) = "list-unsubscribe"
    ELSE IF headers.kind = "str"
         THEN ContainsUnsubscribe(Lower(headers.items[1].name))
    ELSE FALSE

\* NewsletterDetector._has_unsubscribe_header
has_unsubscribe_header(email) ==
    IF Raises(email, "headers") THEN FALSE
    ELSE HeadersHaveUnsubscribe(email.headers)

\* the parts of s that the separators at the indices of cuts delimit
PartsBetween(s, cuts) ==
    [k \in 1..(Len(cuts) - 1) |-> Join(SubSeq(s, cuts[k] + 1, cuts[k + 1] - 1))]

\* re.split(r'[@.\-_]', sender_email)
SplitParts(s) ==
    PartsBetween(s, Ascending({i \in 1..Len(s) : s[i] \in {"@", ".", "-", "_"}}
                              \cup {0, Len(s) + 1}))

\* score += weight; reasons.append(reason), when cond holds
Add(acc, cond, weight, reason) ==
    IF cond
    THEN [acc EXCEPT !.score = @ + weight, !.reasons = Append(@, reason)]
    ELSE acc

\* what a try block holds when reading a message attribute raises in it,
\* before any rule is evaluated
ReadFailed(email) ==
    [score |-> 0, reasons |-> <<>>, exc |-> "cannot read " \o email.broken,
     returned |-> FALSE]

NoSignal == [score |-> 0, reasons |-> <<>>, exc |-> "", returned |-> FALSE]

\* rules that give the unsubscribe header the weight 0.4
newsletter_signals_heavy(d, email, sender_name, domain, subject) ==
    Add(Add(Add(Add(NoSignal,
        has_unsubscribe_header(email),
            DEFAULT_NEWSLETTER_THRESHOLD, "Has unsubscribe header"),
        domain \in d.newsletter_domains,
            W_NEWSLETTER_DOMAIN, "Newsletter platform: " \o domain),
        check_patterns(sender_name, d.newsletter_sender_patterns).matched,
            W_SENDER_PATTERN, "Newsletter sender pattern"),
        check_patterns(subject, d.newsletter_subject_patterns).matched,
            W_SUBJECT_PATTERN, "Newsletter subject pattern")

\* the four rules of _calculate_newsletter_score
newsletter_signals(d, email, sender_name, domain, subject) ==
    Add(Add(Add(Add(NoSignal,
        has_unsubscribe_header(email),
            W_UNSUBSCRIBE, "Has unsubscribe header"),
        domain \in d.newsletter_domains,
            W_NEWSLETTER_DOMAIN, "Newsletter platform: " \o domain),
        check_patterns(sender_name, d.newsletter_sender_patterns).matched,
            W_SENDER_PATTERN, "Newsletter sender pattern"),
        check_patterns(subject, d.newsletter_subject_patterns).matched,
            W_SUBJECT_PATTERN, "Newsletter subject pattern")

\* the try block of _calculate_newsletter_score: the score and the reasons
\* accumulated when it ends, and the exception that ended it, if any
newsletter_score_try(d, email) ==
    IF Raises(email, "sender_email") \/ Raises(email, "sender") \/ Raises(email, "subject")
    THEN ReadFailed(email)
    ELSE newsletter_signals(d, email,
             extract_sender_name(email.sender),
             extract_domain(LowerSeq(email.sender_email)),
             email.subject)

\* a return statement that leaves the sum of the weights as it is
newsletter_score_return_uncapped(t) ==
    [score |-> t.score, reasons |-> t.reasons, exc |-> ""]

\* the except clause and the return statement of _calculate_newsletter_score
newsletter_score_return(t) ==
    [score |-> Min(t.score, SCORE_MAX), reasons |-> t.reasons, exc |-> ""]

\* NewsletterDetector._calculate_newsletter_score
calculate_newsletter_score(d, email) ==
    newsletter_score_return(newsletter_score_try(d, email))

\* the for loop over sender_parts of _calculate_promotional_score
promotional_sender(acc, d, sender_parts) ==
    IF \E i \in 1..Len(sender_parts) : sender_parts[i] \in d.promotional_senders
    THEN Add(acc, TRUE, W_PROMO_SENDER,
             "Promotional sender: "
             \o sender_parts[SetMin({i \in 1..Len(sender_parts) :
                                        sender_parts[i] \in d.promotional_senders})])
    ELSE acc

\* the rules of _calculate_promotional_score that follow the blacklist check
promotional_signals(d, sender_parts, subj, cont, subject) ==
    Add(Add(Add(promotional_sender(NoSignal, d, sender_parts),
        subj.matched,
            W_PROMO_SUBJECT * Min(Len(subj.matches), MAX_PROMO_SUBJECT_HITS),
            "Promotional subject (" \o ToString(Len(subj.matches)) \o " patterns)"),
        cont.matched,
            W_PROMO_CONTENT * Min(Len(cont.matches), MAX_PROMO_CONTENT_HITS),
            "Promotional content"),
        PRICE_RE \in Found(LowerSeq(subject)),
            W_PRICE, "Price/discount in subject")

\* the blacklist check of _calculate_promotional_score and what follows it
promotional_rules(d, sender_email, subject, body) ==
    IF extract_domain(sender_email) \in d.blacklisted_domains
    THEN [score |-> SCORE_MAX, reasons |-> <<"Blacklisted sender domain">>,
          exc |-> "", returned |-> TRUE]
    ELSE promotional_signals(d, SplitParts(sender_email),
             check_patterns(subject, d.promotional_subject_patterns),
             check_patterns(SliceWords(body), d.promotional_content_patterns),
             subject)

\* the try block of _calculate_promotional_score; returned is TRUE when it
\* ended in the return statement of the blacklist check
promotional_score_try(d, email) ==
    IF Raises(email, "sender_email") \/ Raises(email, "subject") \/ Raises(email, "body_text")
    THEN ReadFailed(email)
    ELSE promotional_rules(d, LowerSeq(email.sender_email), email.subject,
                           SliceBody(email.body_text, PROMO_BODY_CHARS))

\* the except clause and the return statement of _calculate_promotional_score
promotional_score_return(t) ==
    IF t.returned
    THEN [score |-> t.score, reasons |-> t.reasons, exc |-> ""]
    ELSE [score |-> Min(t.score, SCORE_MAX), reasons |-> t.reasons, exc |-> ""]

\* NewsletterDetector._calculate_promotional_score
calculate_promotional_score(d, email) ==
    promotional_score_return(promotional_score_try(d, email))

\* the content length rule of _calculate_quality_score
content_length(acc, word_count) ==
    IF word_count > WORDS_SUBSTANTIAL
    THEN Add(acc, TRUE, W_SUBSTANTIAL, "Substantial content")
    ELSE IF word_count > WORDS_DECENT
    THEN Add(acc, TRUE, W_DECENT, "Decent content length")
    ELSE IF word_count < WORDS_SHORT
    THEN [acc EXCEPT !.score = @ - W_SHORT_PENALTY]
    ELSE acc

\* the rules of _calculate_quality_score
quality_signals(d, domain, subj, word_count) ==
    content_length(
        Add(Add(NoSignal,
            domain \in d.whitelisted_domains,
                W_WHITELISTED, "Quality newsletter platform"),
            subj.matched,
                W_QUALITY_SUBJECT * Min(Len(subj.matches), MAX_QUALITY_SUBJECT_HITS),
                "Quality subject"),
        word_count)

\* the try block of _calculate_quality_score
quality_score_try(d, email) ==
    IF Raises(email, "sender_email") \/ Raises(email, "subject") \/ Raises(email, "body_text")
    THEN ReadFailed(email)
    ELSE quality_signals(d,
             extract_domain(LowerSeq(email.sender_email)),
             check_patterns(email.subject, d.quality_subject_patterns),
             WordCount(SliceBody(email.body_text, QUALITY_BODY_CHARS)))

\* the except clause and the return statement of _calculate_quality_score
quality_score_return(t) ==
    [score |-> Max(Min(t.score, SCORE_MAX), 0), reasons |-> t.reasons, exc |-> ""]

\* NewsletterDetector._calculate_quality_score
calculate_quality_score(d, email) ==
    quality_score_return(quality_score_try(d, email))

\* the DetectionResult of the except branch of detect
ErrorResult(e) ==
    [ is_newsletter |-> FALSE,
      is_promotional |-> TRUE,
      is_worth_reading |-> FALSE,
      newsletter_confidence |-> 0,
      promotional_score |-> SCORE_MAX,
      quality_score |-> 0,
      reasons |-> <<"Error: " \o e>> ]

\* detect accepting a promotional score equal to its threshold
detect_result_lenient(d, nl, promo, quality) ==
    [ is_newsletter |-> nl.score >= d.newsletter_threshold,
      is_promotional |-> promo.score > d.promotional_threshold,
      is_worth_reading |-> /\ nl.score >= d.newsletter_threshold
                           /\ ~(promo.score > d.promotional_threshold)
                           /\ quality.score >= d.quality_threshold,
      newsletter_confidence |-> nl.score,
      promotional_score |-> promo.score,
      quality_score |-> quality.score,
      reasons |-> nl.reasons \o promo.reasons \o quality.reasons ]

\* detect comparing the quality score with its threshold the wrong way round
detect_result_reversed(d, nl, promo, quality) ==
    [ is_newsletter |-> nl.score >= d.newsletter_threshold,
      is_promotional |-> promo.score >= d.promotional_threshold,
      is_worth_reading |-> /\ nl.score >= d.newsletter_threshold
                           /\ ~(promo.score >= d.promotional_threshold)
                           /\ quality.score <= d.quality_threshold,
      newsletter_confidence |-> nl.score,
      promotional_score |-> promo.score,
      quality_score |-> quality.score,
      reasons |-> nl.reasons \o promo.reasons \o quality.reasons ]

\* the DetectionResult detect builds from the three scores, and the one of
\* its except branch when computing a score raised
detect_result(d, nl, promo, quality) ==
    IF nl.exc # "" THEN ErrorResult(nl.exc)
    ELSE IF promo.exc # "" THEN ErrorResult(promo.exc)
    ELSE IF quality.exc # "" THEN ErrorResult(quality.exc)
    ELSE [ is_newsletter |-> nl.score >= d.newsletter_threshold,
           is_promotional |-> promo.score >= d.promotional_threshold,
           is_worth_reading |-> /\ nl.score >= d.newsletter_threshold
                                /\ ~(promo.score >= d.promotional_threshold)
                                /\ quality.score >= d.quality_threshold,
           newsletter_confidence |-> nl.score,
           promotional_score |-> promo.score,
           quality_score |-> quality.score,
           reasons |-> nl.reasons \o promo.reasons \o quality.reasons ]

\* NewsletterDetector.detect
detect(d, email) ==
    detect_result(d, calculate_newsletter_score(d, email),
                     calculate_promotional_score(d, email),
                     calculate_quality_score(d, email))

\* the place of the i-th element after results.sort(key=lambda x:
\* x[1].quality_score, reverse=True), a stable sort: after the elements of
\* greater key and after those of equal key that were appended before it
SortedPlace(results, i) ==
    1 + Cardinality({j \in 1..Len(results) :
          \/ results[j].result.quality_score > results[i].result.quality_score
          \/ /\ results[j].result.quality_score = results[i].result.quality_score
             /\ j < i})

\* filter_newsletters without its sort
SortByQuality_skipped(results) == results

SortByQuality(results) ==
    [p \in 1..Len(results) |->
        results[CHOOSE i \in 1..Len(results) : SortedPlace(results, i) = p]]

\* filter_newsletters keeping every message
filter_keeps_all(quality_only, result) == TRUE

\* the test of the for loop of filter_newsletters on what detect returned
filter_keeps(quality_only, result) ==
    IF quality_only THEN result.is_worth_reading ELSE result.is_newsletter

\* the pairs the for loop of filter_newsletters appends, the messages at
\* the indices of kept, in the order of the batch
filter_append(batch, verdicts, kept) ==
    [ results |-> [k \in 1..Len(kept) |->
                      [email |-> batch[kept[k]], result |-> verdicts[kept[k]]]],
      verdicts |-> verdicts ]

\* a for loop that a message with an unreadable attribute ends
filter_collect_aborting(batch, quality_only, verdicts) ==
    [ results |->
        LET kept == Ascending({i \in 1..Len(verdicts) :
                       /\ \A j \in 1..i : batch[j].broken = ""
                       /\ IF quality_only THEN verdicts[i].is_worth_reading
                          ELSE verdicts[i].is_newsletter})
        IN [k \in 1..Len(kept) |->
               [email |-> batch[kept[k]], result |-> verdicts[kept[k]]]],
      verdicts |-> verdicts ]

filter_collect(batch, quality_only, verdicts) ==
    filter_append(batch, verdicts,
        Ascending({i \in 1..Len(verdicts) : filter_keeps(quality_only, verdicts[i])}))

\* a for loop in which every call of detect raises the quality threshold
\* that the next call sees
filter_loop_drifting(d, batch, quality_only) ==
    [ results |-> <<>>,
      verdicts |-> [i \in 1..Len(batch) |->
                      detect([d EXCEPT !.quality_threshold = @ + 10 * i], batch[i])] ]

\* the for loop of filter_newsletters: verdicts holds what detect returned,
\* a message each, and results the pairs appended
filter_loop(d, batch, quality_only) ==
    filter_collect(batch, quality_only, [i \in 1..Len(batch) |-> detect(d, batch[i])])

\* the sort and the return statement of filter_newsletters
filter_return(looped) ==
    [ exc |-> "",
      results |-> SortByQuality(looped.results),
      verdicts |-> looped.verdicts ]

\* NewsletterDetector.filter_newsletters
filter_newsletters(d, batch, quality_only) ==
    filter_return(filter_loop(d, batch, quality_only))

-----------------------------------------------------------------------------
(* The messages and the configurations the detector is run on *)

MaxBatch == 3

NewsletterThresholds == {35, DEFAULT_NEWSLETTER_THRESHOLD}
PromotionalThresholds == {25, DEFAULT_PROMOTIONAL_THRESHOLD}
QualityThresholds == {0, DEFAULT_QUALITY_THRESHOLD}

EmailMessage(sender, sender_email, subject, body_text, headers, broken) ==
    [ sender |-> sender, sender_email |-> sender_email, subject |-> subject,
      body_text |-> body_text, headers |-> headers, broken |-> broken ]

Run(w, n) == [w |-> w, n |-> n]
Header(t, name) == [t |-> t, name |-> name]
Headers(kind, items) == [kind |-> kind, items |-> items]

AddrPlain == <<"joe", "@", "example", ".", "com">>
AddrSubstack == <<"joe", "@", "substack", ".", "com">>
AddrMedium == <<"noreply", "@", "medium", ".", "com">>
AddrAmazon == <<"noreply", "@", "amazon", ".", "com">>
AddrTwoAts == <<"joe", "@", "example", ".", "com", "@", "AMAZON", ".", "COM">>

SenderEmails == {AddrPlain, AddrSubstack, AddrMedium, AddrAmazon, AddrTwoAts}

SenderPlain == <<"Joe">>
SenderWeekly == <<"Tech", "Weekly", "<", "joe@example.com", ">">>

Senders == {SenderPlain, SenderWeekly}

SubjectPlain == <<"Hello">>
SubjectWeekly == <<"Weekly", "analysis">>
SubjectInsights == <<"insights", "trends">>
SubjectIssue == <<"Issue #12", "insights", "trends", "analysis">>
SubjectPromo == <<"50% off", "today only", "sale", "discount">>
SubjectPrice == <<"Weekly", "$5">>
SubjectSale == <<"sale", "digest">>

Subjects == {SubjectPlain, SubjectWeekly, SubjectInsights, SubjectIssue, SubjectPromo,
             SubjectPrice, SubjectSale}

BodyEmpty == <<>>
BodyMedium == <<Run("lorem", 150)>>
BodyDecent == <<Run("data", 300)>>
BodyLong == <<Run("data", 600)>>
BodyAdvert == <<Run("Shop now", 1), Run("$5", 1), Run("buy now", 1),
                Run("click here", 1), Run("limited time", 1), Run("lorem", 250)>>

Bodies == {BodyEmpty, BodyMedium, BodyDecent, BodyLong, BodyAdvert}

HeadersNone == Headers("none", <<>>)
HeadersUnsub == Headers("dict", <<Header("key", "from"), Header("key", "list-unsubscribe")>>)
HeadersPost == Headers("dict", <<Header("key", "from"), Header("key", "list-unsubscribe-post")>>)
HeadersList == Headers("list", <<Header("dict", "From"), Header("dict", "List-Unsubscribe")>>)

HeaderSets == {HeadersNone, HeadersUnsub, HeadersPost}

\* messages every attribute of which can be read
SoundMessages ==
    { EmailMessage(s, a, j, b, h, "") :
        s \in Senders, a \in SenderEmails, j \in Subjects, b \in Bodies, h \in HeaderSets }

\* messages one attribute of which cannot be read
BrokenAttributes == {"sender", "sender_email", "subject", "body_text", "headers"}

BrokenMessages ==
    { EmailMessage(SenderWeekly, a, j, BodyLong, HeadersUnsub, x) :
        a \in {AddrSubstack, AddrMedium, AddrAmazon},
        j \in {SubjectWeekly, SubjectPromo},
        x \in BrokenAttributes }

\* addresses with a promotional word in the domain, with a hyphen in the
\* local part, and with a promotional word on both sides of the '@'
AddrShop == <<"joe", "@", "shop", ".", "com">>
AddrNoReply == <<"no", "-", "reply", "@", "example", ".", "com">>
AddrInfoShop == <<"info", "@", "shop", ".", "com">>

\* messages of these addresses
AddressMessages ==
    { EmailMessage(SenderPlain, a, j, BodyMedium, h, "") :
        a \in {AddrShop, AddrNoReply, AddrInfoShop},
        j \in {SubjectPlain, SubjectPromo},
        h \in {HeadersNone, HeadersUnsub} }

\* a body of 600 words that is longer than the 3000 characters the quality
\* score reads, and a body of 99 words
BodyWordy == <<Run("lorem", 600)>>
BodyShort == <<Run("lorem", 99)>>

\* headers of an unexpected structure: a number, an empty list, a list of
\* numbers and a list of a dict without a name
HeadersNumber == Headers("int", <<Header("int", "7")>>)
HeadersEmptyList == Headers("list", <<>>)
HeadersOddList == Headers("list", <<Header("int", "7"), Header("dict", "")>>)

\* messages of these bodies and headers, and messages with an empty sender,
\* an empty address and an empty subject
EdgeMessages ==
    { EmailMessage(SenderWeekly, a, SubjectWeekly, b, h, "") :
        a \in {AddrPlain, AddrSubstack},
        b \in {BodyEmpty, BodyShort, BodyMedium, BodyWordy},
        h \in {HeadersNone, HeadersNumber, HeadersEmptyList, HeadersOddList, HeadersList} }
    \cup { EmailMessage(s, a, j, BodyMedium, HeadersPost, "") :
             s \in {<<>>, SenderWeekly}, a \in {<<>>, AddrSubstack},
             j \in {<<>>, SubjectIssue} }

Messages == SoundMessages \cup BrokenMessages \cup AddressMessages \cup EdgeMessages

\* the messages batches of more than one message are made of
MsgGood == EmailMessage(SenderWeekly, AddrSubstack, SubjectWeekly, BodyLong, HeadersUnsub, "")
MsgFair == EmailMessage(SenderPlain, AddrPlain, SubjectIssue, BodyDecent, HeadersList, "")
MsgPromo == EmailMessage(SenderPlain, AddrMedium, SubjectPromo, BodyAdvert, HeadersUnsub, "")
MsgThin == EmailMessage(SenderPlain, AddrSubstack, SubjectPlain, BodyEmpty, HeadersPost, "")
MsgBroken == EmailMessage(SenderWeekly, AddrSubstack, SubjectWeekly, BodyLong, HeadersUnsub, "body_text")

BatchMessages == {MsgGood, MsgFair, MsgPromo, MsgThin, MsgBroken}

RECURSIVE SeqsUpTo(_, _)
SeqsUpTo(S, n) ==
    IF n = 0 THEN {<<>>}
    ELSE LET shorter == SeqsUpTo(S, n - 1)
         IN shorter \cup {Append(q, x) : q \in {r \in shorter : Len(r) = n - 1}, x \in S}

Batches == {<<m>> : m \in Messages} \cup SeqsUpTo(BatchMessages, MaxBatch)

-----------------------------------------------------------------------------
(* The state machine of the detector *)

NoResult ==
    [ is_newsletter |-> FALSE, is_promotional |-> FALSE, is_worth_reading |-> FALSE,
      newsletter_confidence |-> 0, promotional_score |-> 0, quality_score |-> 0,
      reasons |-> <<>> ]

NoCall ==
    [ call |-> "none", index |-> 0, quality_only |-> FALSE, exc |-> "",
      verdict |-> NoResult, results |-> <<>>, verdicts |-> <<>> ]

IdleChunker == [chunk_size |-> 0, overlap |-> 0]
IdleContent == [text |-> <<>>, source_email_id |-> ""]
IdleOut == [called |-> FALSE, chunks |-> <<>>, windows |-> <<>>, runs |-> 0]

\* a VectorStore add_chunks was not called on: the documents of its
\* collection, the chunks it is called with, what the last call returned,
\* the number of calls and the collection the first call left
IdleStore ==
    [ collection |-> <<>>, chunks |-> <<>>, added |-> 0, calls |-> 0, once |-> <<>> ]

\* no ConversationHandler: history and max_history are its attributes, log
\* holds the turns appended since history was last emptied, calls counts
\* the calls of chat and last records the last call
IdleHandler ==
    [ history |-> <<>>, max_history |-> 0, log |-> <<>>, calls |-> 0,
      last |-> [op |-> "none", raised |-> FALSE, message |-> "", answer |-> "",
                before |-> <<>>] ]

\* sync_newsletters not called: pc is the statement it is at, stages the
\* stages it has run, and the other fields are its locals, the collection
\* of the vector store and what it returned
IdleSync ==
    [ pc |-> "idle", stages |-> <<>>, newsletters |-> <<>>, passed |-> <<>>,
      cleaned |-> <<>>, all_chunks |-> <<>>, chunks |-> <<>>,
      collection |-> <<>>, added |-> 0, returned |-> 0, exc |-> "" ]

Init ==
    /\ \E nt \in NewsletterThresholds, pt \in PromotionalThresholds,
          qt \in QualityThresholds :
          /\ detector = NewsletterDetector(nt, pt, qt)
          /\ config = [newsletter_threshold |-> nt, promotional_threshold |-> pt,
                       quality_threshold |-> qt]
    /\ emails \in Batches
    /\ ret = NoCall
    /\ chunker = IdleChunker
    /\ content = IdleContent
    /\ out = IdleOut
    /\ sync = IdleSync
    /\ store = IdleStore
    /\ handler = IdleHandler

FilterReturned(quality_only, r) ==
    [ call |-> "filter", index |-> 0, quality_only |-> quality_only,
      exc |-> r.exc, verdict |-> NoResult,
      results |-> r.results, verdicts |-> r.verdicts ]

\* result = self.detect(emails[i])
Detect(i) ==
    /\ i \in 1..Len(emails)
    /\ ret' = [ call |-> "detect", index |-> i, quality_only |-> FALSE, exc |-> "",
                verdict |-> detect(detector, emails[i]),
                results |-> <<>>, verdicts |-> <<>> ]
    /\ UNCHANGED <<detector, config, emails, sync>>
    /\ UNCHANGED chunkVars
    /\ UNCHANGED <<store, handler>>

\* results = self.filter_newsletters(emails, quality_only)
FilterNewsletters(quality_only) ==
    /\ ret' = FilterReturned(quality_only,
                             filter_newsletters(detector, emails, quality_only))
    /\ UNCHANGED <<detector, config, emails, sync>>
    /\ UNCHANGED chunkVars
    /\ UNCHANGED <<store, handler>>

Next ==
    \/ \E i \in 1..MaxBatch : Detect(i)
    \/ \E quality_only \in BOOLEAN : FilterNewsletters(quality_only)

Spec == Init /\ [][Next]_vars

-----------------------------------------------------------------------------
(* TextChunker: a text is a sequence of characters, a sentence too *)

\* config.CHUNK_SIZE and config.CHUNK_OVERLAP, with no environment variable
CHUNK_SIZE == 1000
CHUNK_OVERLAP == 200

\* the characters that \s matches and str.strip() removes
IsSpace(c) == c \in {" ", "\n"}

\* the characters of the lookbehind [.!?]
IsTerminator(c) == c \in {".", "!", "?"}

\* str.strip()
Strip(s) ==
    IF \A i \in 1..Len(s) : IsSpace(s[i]) THEN <<>>
    ELSE SubSeq(s, SetMin({i \in 1..Len(s) : ~IsSpace(s[i])}),
                   SetMax({i \in 1..Len(s) : ~IsSpace(s[i])}))

\* ' '.join(parts)
JoinSpace(parts) ==
    LET J[i \in 0..Len(parts)] ==
            IF i = 0 THEN <<>>
            ELSE IF i = 1 THEN parts[1]
            ELSE J[i - 1] \o <<" ">> \o parts[i]
    IN J[Len(parts)]

\* s[-n:]
LastChars(s, n) ==
    IF n = 0 \/ n >= Len(s) THEN s ELSE SubSeq(s, Len(s) - n + 1, Len(s))

\* the last index of the run of whitespace that starts at index i
RunEnd(text, i) ==
    SetMax({j \in i..Len(text) : \A k \in i..j : IsSpace(text[k])})

\* the pieces of text that the separators starting at the indices of starts
\* leave, every separator a whole run of whitespace
PiecesBetween(text, starts) ==
    [k \in 1..(Len(starts) + 1) |->
        SubSeq(text,
               IF k = 1 THEN 1 ELSE RunEnd(text, starts[k - 1]) + 1,
               IF k = Len(starts) + 1 THEN Len(text) ELSE starts[k] - 1)]

\* re.split(r'(?<=[.!?])\s+', text): a match starts at whitespace that
\* follows a terminator and takes the whole run of whitespace
SplitOnSentenceEnds(text) ==
    PiecesBetween(text,
        Ascending({i \in 2..Len(text) :
                      IsSpace(text[i]) /\ IsTerminator(text[i - 1])}))

\* sentence.split('\n\n') when the sentence holds '\n\n', the sentence
\* itself otherwise
RECURSIVE SplitOnBlankLines(_)
SplitOnBlankLines(s) ==
    IF \E i \in 1..(Len(s) - 1) : s[i] = "\n" /\ s[i + 1] = "\n"
    THEN <<SubSeq(s, 1, SetMin({i \in 1..(Len(s) - 1) :
                                  s[i] = "\n" /\ s[i + 1] = "\n"}) - 1)>>
         \o SplitOnBlankLines(SubSeq(s,
                SetMin({i \in 1..(Len(s) - 1) : s[i] = "\n" /\ s[i + 1] = "\n"}) + 2,
                Len(s)))
    ELSE <<s>>

\* final_sentences of _split_into_sentences
FinalSentences(sentences) ==
    LET F[i \in 0..Len(sentences)] ==
            IF i = 0 THEN <<>>
            ELSE F[i - 1] \o SplitOnBlankLines(sentences[i])
    IN F[Len(sentences)]

\* [s.strip() for s in final_sentences if s.strip()]
StrippedNonEmpty(final_sentences) ==
    SelectSeq([i \in 1..Len(final_sentences) |-> Strip(final_sentences[i])],
              LAMBDA s : s # <<>>)

\* TextChunker._split_into_sentences
split_into_sentences(text) ==
    StrippedNonEmpty(FinalSentences(SplitOnSentenceEnds(text)))

\* TextChunker.__init__
TextChunker(chunk_size, overlap) ==
    [ chunk_size |-> IF chunk_size # 0 THEN chunk_size ELSE CHUNK_SIZE,
      overlap |-> IF overlap # 0 THEN overlap ELSE CHUNK_OVERLAP ]

\* a TextChunk the id of which is made of the number of chunks
TextChunk_id_of_total(source_email_id, i, text, total_chunks) ==
    [ id |-> source_email_id \o "_" \o ToString(total_chunks),
      text |-> text,
      source_email_id |-> source_email_id,
      chunk_index |-> i,
      total_chunks |-> total_chunks ]

\* the TextChunk of a window; its embedding is None and the title, the
\* sender and the date of the content are copied to it
TextChunk(source_email_id, i, text, total_chunks) ==
    [ id |-> source_email_id \o "_" \o ToString(i),
      text |-> text,
      source_email_id |-> source_email_id,
      chunk_index |-> i,
      total_chunks |-> total_chunks ]

\* the locals of chunk before its for loop; windows records, a chunk of
\* chunks each, the overlap text the chunk starts with and the sentences
\* appended to it, and seeded whether current_chunk starts with an overlap
\* text
ChunkLoopStart ==
    [ chunks |-> <<>>, current_chunk |-> <<>>, current_length |-> 0,
      seeded |-> FALSE, windows |-> <<>> ]

\* overlap_text left as long as the last two elements joined
OverlapText_untruncated(current_chunk, overlap) ==
    IF Len(current_chunk) >= 2
    THEN JoinSpace(SubSeq(current_chunk, Len(current_chunk) - 1, Len(current_chunk)))
    ELSE <<>>

\* overlap_text of chunk
OverlapText(current_chunk, overlap) ==
    IF Len(current_chunk) >= 2
    THEN IF Len(JoinSpace(SubSeq(current_chunk, Len(current_chunk) - 1,
                                 Len(current_chunk)))) > overlap
         THEN LastChars(JoinSpace(SubSeq(current_chunk, Len(current_chunk) - 1,
                                         Len(current_chunk))), overlap)
         ELSE JoinSpace(SubSeq(current_chunk, Len(current_chunk) - 1,
                               Len(current_chunk)))
    ELSE <<>>

\* what current_chunk holds, as a window
Window(l) ==
    [ seed |-> IF l.seeded THEN l.current_chunk[1] ELSE <<>>,
      core |-> IF l.seeded THEN Tail(l.current_chunk) ELSE l.current_chunk ]

\* the body of the if statement of the for loop of chunk: the current chunk
\* is saved and a new one is started with overlap_text
chunk_save(l, overlap_text) ==
    [ chunks |-> Append(l.chunks, JoinSpace(l.current_chunk)),
      current_chunk |-> IF overlap_text # <<>> THEN <<overlap_text>> ELSE <<>>,
      current_length |-> Len(overlap_text),
      seeded |-> overlap_text # <<>>,
      windows |-> Append(l.windows, Window(l)) ]

\* the last two statements of the for loop of chunk
chunk_append(l, sentence) ==
    [l EXCEPT !.current_chunk = Append(@, sentence),
              !.current_length = @ + Len(sentence) + 1]

\* an iteration that saves the current chunk only once it is over chunk_size
chunk_iteration_late(c, l, sentence) ==
    IF l.current_length > c.chunk_size /\ l.current_chunk # <<>>
    THEN chunk_append(chunk_save(l, OverlapText(l.current_chunk, c.overlap)), sentence)
    ELSE chunk_append(l, sentence)

\* an iteration that saves the current chunk before every sentence
chunk_iteration_eager(c, l, sentence) ==
    IF l.current_chunk # <<>>
    THEN chunk_append(chunk_save(l, OverlapText(l.current_chunk, c.overlap)), sentence)
    ELSE chunk_append(l, sentence)

\* one iteration of the for loop of chunk
chunk_iteration(c, l, sentence) ==
    IF l.current_length + Len(sentence) > c.chunk_size /\ l.current_chunk # <<>>
    THEN chunk_append(chunk_save(l, OverlapText(l.current_chunk, c.overlap)), sentence)
    ELSE chunk_append(l, sentence)

\* the for loop of chunk
chunk_loop(c, sentences) ==
    LET L[i \in 0..Len(sentences)] ==
            IF i = 0 THEN ChunkLoopStart
            ELSE chunk_iteration(c, L[i - 1], sentences[i])
    IN L[Len(sentences)]

\* the last chunk left out
chunk_last_dropped(l) == l

\* if current_chunk: chunks.append(' '.join(current_chunk))
chunk_last(l) ==
    IF l.current_chunk # <<>>
    THEN [l EXCEPT !.chunks = Append(@, JoinSpace(l.current_chunk)),
                   !.windows = Append(@, Window(l))]
    ELSE l

\* TextChunk objects numbered from 1
chunk_objects_from_one(source_email_id, l) ==
    [ called |-> TRUE,
      chunks |-> [i \in 1..Len(l.chunks) |->
                    TextChunk(source_email_id, i, Strip(l.chunks[i]),
                              Len(l.chunks))],
      windows |-> l.windows ]

\* the list of TextChunk objects that chunk returns for the chunks of l
chunk_objects(source_email_id, l) ==
    [ called |-> TRUE,
      chunks |-> [i \in 1..Len(l.chunks) |->
                    TextChunk(source_email_id, i - 1, Strip(l.chunks[i]),
                              Len(l.chunks))],
      windows |-> l.windows ]

\* what chunk returns for a text of at most chunk_size characters
chunk_single(cleaned) ==
    [ called |-> TRUE,
      chunks |-> <<TextChunk(cleaned.source_email_id, 0, cleaned.text, 1)>>,
      windows |-> <<>> ]

\* chunk sending a text of exactly chunk_size characters to the for loop
chunk_below(c, cleaned) ==
    IF Len(cleaned.text) < c.chunk_size
    THEN chunk_single(cleaned)
    ELSE chunk_objects(cleaned.source_email_id,
             chunk_last(chunk_loop(c, split_into_sentences(cleaned.text))))

\* TextChunker.chunk
chunk(c, cleaned) ==
    IF Len(cleaned.text) <= c.chunk_size
    THEN chunk_single(cleaned)
    ELSE chunk_objects(cleaned.source_email_id,
             chunk_last(chunk_loop(c, split_into_sentences(cleaned.text))))

\* the texts and the arguments of the constructor that chunk is run on
MaxTextLen == 6
MaxChunkSize == 3
MaxOverlap == 2
MaxRuns == 2

Characters == {"a", ".", " ", "\n"}

RECURSIVE TextsUpTo(_)
TextsUpTo(n) ==
    IF n = 0 THEN {<<>>}
    ELSE LET shorter == TextsUpTo(n - 1)
         IN shorter \cup {Append(t, ch) : t \in {u \in shorter : Len(u) = n - 1},
                                          ch \in Characters}

Texts == TextsUpTo(MaxTextLen)

ChunkSizeArguments == {0} \cup 2..MaxChunkSize
OverlapArguments == 0..MaxOverlap

\* longer texts, of sentences with spaces inside them, and the arguments
\* <<chunk_size, overlap>> they are chunked with
TextSpaced == <<".", " ", "a", " ", " ", " ", ".", " ", ".", " ", ".", ".">>
TextParagraphs == <<"a", " ", " ", "a", "\n", "\n", "a", ".", " ", "a", "a", "a">>
TextOversized == <<".", " ", ".", " ", "a", "a", "a", ".", " ", "a">>

LongTexts == {TextSpaced, TextParagraphs, TextOversized}
WideArguments == {<<7, 4>>, <<5, 2>>, <<3, 1>>}

\* chunker = TextChunker(chunk_size, overlap) and the content given to it
ChunkInit ==
    /\ \/ /\ \E chunk_size \in ChunkSizeArguments, overlap \in OverlapArguments :
                chunker = TextChunker(chunk_size, overlap)
          /\ \E text \in Texts :
                content = [text |-> text, source_email_id |-> "msg"]
       \/ /\ \E arguments \in WideArguments :
                chunker = TextChunker(arguments[1], arguments[2])
          /\ \E text \in LongTexts :
                content = [text |-> text, source_email_id |-> "msg"]
    /\ out = IdleOut
    /\ detector = NewsletterDetector(DEFAULT_NEWSLETTER_THRESHOLD,
                                     DEFAULT_PROMOTIONAL_THRESHOLD,
                                     DEFAULT_QUALITY_THRESHOLD)
    /\ config = [newsletter_threshold |-> DEFAULT_NEWSLETTER_THRESHOLD,
                 promotional_threshold |-> DEFAULT_PROMOTIONAL_THRESHOLD,
                 quality_threshold |-> DEFAULT_QUALITY_THRESHOLD]
    /\ emails = <<>>
    /\ ret = NoCall
    /\ sync = IdleSync
    /\ store = IdleStore
    /\ handler = IdleHandler

\* what chunk returned, and the number of times it has been called
ChunkReturned(r, runs) ==
    [called |-> r.called, chunks |-> r.chunks, windows |-> r.windows, runs |-> runs]

\* chunks = chunker.chunk(content)
Chunk ==
    /\ out.runs < MaxRuns
    /\ out' = ChunkReturned(chunk(chunker, content), out.runs + 1)
    /\ UNCHANGED <<chunker, content, sync>>
    /\ UNCHANGED detVars
    /\ UNCHANGED <<store, handler>>

ChunkNext == Chunk

ChunkSpec == ChunkInit /\ [][ChunkNext]_vars

-----------------------------------------------------------------------------
(* sync_newsletters: fetch, classify, extract, segment, embed, store *)

\* the least number of characters of a text that clean returns
MIN_CLEANED_CHARS == 50

\* the id of the i-th message that fetch_recent_emails returns
MessageId(i) == "m" \o ToString(i)

\* the messages that fetch_recent_emails returns, an id each
Fetched(batch) ==
    [i \in 1..Len(batch) |->
        [ id |-> MessageId(i),
          sender |-> batch[i].sender, sender_email |-> batch[i].sender_email,
          subject |-> batch[i].subject, body_text |-> batch[i].body_text,
          headers |-> batch[i].headers, broken |-> batch[i].broken ]]

\* the batches that are fetched
FetchedBatches == SeqsUpTo(BatchMessages, MaxBatch)

\* what the extraction and _clean_text leave of a message: a text that is
\* too short, a text of 60 characters and a text of 1100 characters, eleven
\* sentences
TextBrief == [i \in 1..60 |-> IF i = 60 THEN "." ELSE "a"]
TextLetter ==
    [i \in 1..1100 |-> IF i % 100 = 99 THEN "." ELSE IF i % 100 = 0 THEN " " ELSE "a"]

CleanedTexts == {TextOversized, TextBrief, TextLetter}

\* None, returned by clean
NoContent == [text |-> <<>>, source_email_id |-> ""]

\* CleanedContent, with the fields that chunk reads
CleanedContent(email, cleaned_text) ==
    [text |-> cleaned_text, source_email_id |-> email.id]

\* ContentCleaner.clean, cleaned_text being what _clean_text returned
clean(email, cleaned_text) ==
    IF Len(cleaned_text) < MIN_CLEANED_CHARS THEN NoContent
    ELSE CleanedContent(email, cleaned_text)

\* ContentCleaner.clean_batch
clean_batch(batch, cleaned_texts) ==
    SelectSeq([k \in 1..Len(batch) |-> clean(batch[k], cleaned_texts[k])],
              LAMBDA result : result # NoContent)

\* the first for loop of EmbeddingPipeline.process
RECURSIVE process_chunk(_, _)
process_chunk(c, contents) ==
    IF contents = <<>> THEN <<>>
    ELSE chunk(c, Head(contents)).chunks \o process_chunk(c, Tail(contents))

\* EmbeddingGenerator.generate_batch; generate returned None for the
\* chunks at the indices of failed
generate_batch(chunks, failed) ==
    [i \in 1..Len(chunks) |->
        [ id |-> chunks[i].id, text |-> chunks[i].text,
          source_email_id |-> chunks[i].source_email_id,
          chunk_index |-> chunks[i].chunk_index,
          total_chunks |-> chunks[i].total_chunks,
          embedding |-> IF i \in failed THEN "None" ELSE "vector" ]]

\* successful = [c for c in embedded_chunks if c.embedding is not None]
process_successful(embedded_chunks) ==
    SelectSeq(embedded_chunks, LAMBDA c : c.embedding # "None")

\* a collection that adds the chunks to the documents it holds
upsert_appending(collection, valid_chunks) == collection \o valid_chunks

\* collection.upsert: the chunks replace the documents of their ids
upsert(collection, valid_chunks) ==
    SelectSeq(collection,
              LAMBDA c : \A v \in 1..Len(valid_chunks) : valid_chunks[v].id # c.id)
    \o valid_chunks

\* VectorStore.add_chunks: the collection and the number returned
add_chunks(collection, chunks) ==
    [ collection |-> upsert(collection, process_successful(chunks)),
      added |-> Len(process_successful(chunks)) ]

\* a call of filter_newsletters that asks for newsletters of any quality
sync_filter_any_quality(d, fetched) == filter_newsletters(d, fetched, FALSE).results

\* newsletters = detector.filter_newsletters(emails)
sync_filter(d, fetched) == filter_newsletters(d, fetched, TRUE).results

\* [n[0] for n in newsletters]
sync_passed(newsletters) == [k \in 1..Len(newsletters) |-> newsletters[k].email]

\* sync_newsletters is called
SyncInit ==
    /\ detector = NewsletterDetector(DEFAULT_NEWSLETTER_THRESHOLD,
                                     DEFAULT_PROMOTIONAL_THRESHOLD,
                                     DEFAULT_QUALITY_THRESHOLD)
    /\ config = [newsletter_threshold |-> DEFAULT_NEWSLETTER_THRESHOLD,
                 promotional_threshold |-> DEFAULT_PROMOTIONAL_THRESHOLD,
                 quality_threshold |-> DEFAULT_QUALITY_THRESHOLD]
    /\ emails = <<>>
    /\ ret = NoCall
    /\ chunker = IdleChunker
    /\ content = IdleContent
    /\ out = IdleOut
    /\ sync = [IdleSync EXCEPT !.pc = "fetch"]
    /\ store = IdleStore
    /\ handler = IdleHandler

\* emails = client.fetch_recent_emails(days=days)
SyncFetch ==
    /\ sync.pc = "fetch"
    /\ \E batch \in FetchedBatches : emails' = Fetched(batch)
    /\ sync' = [sync EXCEPT !.pc = "classify"]
    /\ UNCHANGED <<detector, config, ret>>
    /\ UNCHANGED chunkVars
    /\ UNCHANGED <<store, handler>>

\* newsletters = detector.filter_newsletters(emails), and the return of 0
\* if there is none
SyncClassified(s, newsletters) ==
    [s EXCEPT !.pc = IF newsletters = <<>> THEN "returned" ELSE "extract",
              !.stages = Append(@, "classify"),
              !.newsletters = newsletters]

SyncClassify ==
    /\ sync.pc = "classify"
    /\ sync' = SyncClassified(sync, sync_filter(detector, emails))
    /\ UNCHANGED detVars
    /\ UNCHANGED chunkVars
    /\ UNCHANGED <<store, handler>>

\* cleaned = cleaner.clean_batch([n[0] for n in newsletters])
SyncExtracted(s, passed, cleaned_texts) ==
    [s EXCEPT !.pc = "segment",
              !.stages = Append(@, "extract"),
              !.passed = passed,
              !.cleaned = clean_batch(passed, cleaned_texts)]

SyncExtract ==
    /\ sync.pc = "extract"
    /\ \E cleaned_texts \in [1..Len(sync.newsletters) -> CleanedTexts] :
          sync' = SyncExtracted(sync, sync_passed(sync.newsletters), cleaned_texts)
    /\ UNCHANGED detVars
    /\ UNCHANGED chunkVars
    /\ UNCHANGED <<store, handler>>

\* pipeline = EmbeddingPipeline() and the first for loop of process
SyncSegment ==
    /\ sync.pc = "segment"
    /\ chunker' = TextChunker(0, 0)
    /\ sync' = [sync EXCEPT !.pc = "embed",
                            !.stages = Append(@, "segment"),
                            !.all_chunks = process_chunk(TextChunker(0, 0), sync.cleaned)]
    /\ UNCHANGED detVars
    /\ UNCHANGED <<content, out>>
    /\ UNCHANGED <<store, handler>>

\* generate_batch and the return of process
SyncEmbed ==
    /\ sync.pc = "embed"
    /\ \E failed \in SUBSET (1..Len(sync.all_chunks)) :
          sync' = [sync EXCEPT !.pc = "store",
                               !.stages = Append(@, "embed"),
                               !.chunks = process_successful(
                                              generate_batch(sync.all_chunks, failed))]
    /\ UNCHANGED detVars
    /\ UNCHANGED chunkVars
    /\ UNCHANGED <<store, handler>>

\* added = vector_store.add_chunks(chunks) and return len(newsletters)
SyncStored(s, stored) ==
    [s EXCEPT !.pc = "returned",
              !.stages = Append(@, "store"),
              !.collection = stored.collection,
              !.added = stored.added,
              !.returned = Len(s.newsletters)]

SyncStore ==
    /\ sync.pc = "store"
    /\ sync' = SyncStored(sync, add_chunks(sync.collection, sync.chunks))
    /\ UNCHANGED detVars
    /\ UNCHANGED chunkVars
    /\ UNCHANGED <<store, handler>>

\* except Exception: a call to Gmail or to the vector store raised
SyncExcept ==
    /\ sync.pc \in {"fetch", "store"}
    /\ sync' = [sync EXCEPT !.pc = "returned", !.exc = "Exception", !.returned = 0]
    /\ UNCHANGED detVars
    /\ UNCHANGED chunkVars
    /\ UNCHANGED <<store, handler>>

SyncNext ==
    \/ SyncFetch
    \/ SyncClassify
    \/ SyncExtract
    \/ SyncSegment
    \/ SyncEmbed
    \/ SyncStore
    \/ SyncExcept

SyncSpec == SyncInit /\ [][SyncNext]_vars

-----------------------------------------------------------------------------
(* VectorStore.add_chunks called again with the chunks of a message *)

MaxAdds == 3

\* the lists of chunks add_chunks is called with: the chunks of a text as
\* generate_batch leaves them, the embedding of some of them None
EmbeddedChunkLists ==
    { generate_batch(
          chunk(TextChunker(arguments[1], arguments[2]),
                [text |-> text, source_email_id |-> "m1"]).chunks,
          failed) :
        arguments \in WideArguments, text \in LongTexts, failed \in SUBSET (1..3) }

\* a document stored for a chunk of an id
Document(source_email_id, i, text) ==
    [ id |-> source_email_id \o "_" \o ToString(i), text |-> text,
      source_email_id |-> source_email_id, chunk_index |-> i, total_chunks |-> 1,
      embedding |-> "vector" ]

\* the collections add_chunks finds: an empty one, and one that holds a
\* document of another message and an older document of the id m1_0
StoredBefore == <<Document("m0", 0, <<"a", ".">>), Document("m1", 0, <<"a", "a", ".">>)>>
Collections == {<<>>, StoredBefore}

StoreInit ==
    /\ \E chunks \in EmbeddedChunkLists, collection \in Collections :
          store = [IdleStore EXCEPT !.chunks = chunks, !.collection = collection]
    /\ handler = IdleHandler
    /\ detector = NewsletterDetector(DEFAULT_NEWSLETTER_THRESHOLD,
                                     DEFAULT_PROMOTIONAL_THRESHOLD,
                                     DEFAULT_QUALITY_THRESHOLD)
    /\ config = [newsletter_threshold |-> DEFAULT_NEWSLETTER_THRESHOLD,
                 promotional_threshold |-> DEFAULT_PROMOTIONAL_THRESHOLD,
                 quality_threshold |-> DEFAULT_QUALITY_THRESHOLD]
    /\ emails = <<>>
    /\ ret = NoCall
    /\ chunker = IdleChunker
    /\ content = IdleContent
    /\ out = IdleOut
    /\ sync = IdleSync

\* the store after a call of add_chunks returned
Added(st, r) ==
    [st EXCEPT !.collection = r.collection,
               !.added = r.added,
               !.calls = @ + 1,
               !.once = IF st.calls = 0 THEN r.collection ELSE @]

\* added = vector_store.add_chunks(chunks)
AddChunks ==
    /\ store.calls < MaxAdds
    /\ store' = Added(store, add_chunks(store.collection, store.chunks))
    /\ UNCHANGED <<sync, handler>>
    /\ UNCHANGED detVars
    /\ UNCHANGED chunkVars

StoreNext == AddChunks

StoreSpec == StoreInit /\ [][StoreNext]_vars

-----------------------------------------------------------------------------
(* ConversationHandler: chat and clear_history *)

\* self.max_history
MAX_HISTORY == 10

MaxChats == 11

\* the answers of the RAGResponse that RAGEngine.query returns: one that
\* the model generated, and the message returned when no embedding of the
\* question could be made
AnswerGenerated == "answer"
AnswerError == "I'm sorry, I encountered an error processing your question. Please try again."
Answers == {AnswerGenerated, AnswerError}

\* the message of the n-th call of chat
Message(n) == "question " \o ToString(n)

\* a turn of the history
Turn(message, answer) == [user |-> message, assistant |-> answer]

\* a trim that keeps the oldest turns
chat_trim_oldest(history, max_history) ==
    IF Len(history) > max_history
    THEN SubSeq(history, 1, max_history)
    ELSE history

\* if len(self.history) > self.max_history:
\*     self.history = self.history[-self.max_history:]
chat_trim(history, max_history) ==
    IF Len(history) > max_history
    THEN SubSeq(history, Len(history) - max_history + 1, Len(history))
    ELSE history

\* self.history of a call of chat that returns
chat(h, message, answer) ==
    chat_trim(Append(h.history, Turn(message, answer)), h.max_history)

\* ConversationHandler.__init__
HandlerInit ==
    /\ handler = [IdleHandler EXCEPT !.max_history = MAX_HISTORY]
    /\ store = IdleStore
    /\ detector = NewsletterDetector(DEFAULT_NEWSLETTER_THRESHOLD,
                                     DEFAULT_PROMOTIONAL_THRESHOLD,
                                     DEFAULT_QUALITY_THRESHOLD)
    /\ config = [newsletter_threshold |-> DEFAULT_NEWSLETTER_THRESHOLD,
                 promotional_threshold |-> DEFAULT_PROMOTIONAL_THRESHOLD,
                 quality_threshold |-> DEFAULT_QUALITY_THRESHOLD]
    /\ emails = <<>>
    /\ ret = NoCall
    /\ chunker = IdleChunker
    /\ content = IdleContent
    /\ out = IdleOut
    /\ sync = IdleSync

\* the handler after a call of chat that returned
Chatted(h, message, answer) ==
    [h EXCEPT !.history = chat(h, message, answer),
              !.log = Append(@, Turn(message, answer)),
              !.calls = @ + 1,
              !.last = [op |-> "chat", raised |-> FALSE, message |-> message,
                        answer |-> answer, before |-> h.history]]

\* response = self.chat(message), self.rag.query returning a response
Chat ==
    /\ handler.calls < MaxChats
    /\ \E answer \in Answers :
          handler' = Chatted(handler, Message(handler.calls + 1), answer)
    /\ UNCHANGED <<sync, store>>
    /\ UNCHANGED detVars
    /\ UNCHANGED chunkVars

\* self.chat(message), self.rag.query raising: vector_store.search is
\* called outside the try statement of query
ChatRaises ==
    /\ handler.calls < MaxChats
    /\ handler' = [handler EXCEPT
                      !.calls = @ + 1,
                      !.last = [op |-> "chat", raised |-> TRUE,
                                message |-> Message(handler.calls + 1),
                                answer |-> "", before |-> handler.history]]
    /\ UNCHANGED <<sync, store>>
    /\ UNCHANGED detVars
    /\ UNCHANGED chunkVars

\* ConversationHandler.clear_history
ClearHistory ==
    /\ handler' = [handler EXCEPT
                      !.history = <<>>,
                      !.log = <<>>,
                      !.last = [op |-> "clear", raised |-> FALSE, message |-> "",
                                answer |-> "", before |-> handler.history]]
    /\ UNCHANGED <<sync, store>>
    /\ UNCHANGED detVars
    /\ UNCHANGED chunkVars

HandlerNext ==
    \/ Chat
    \/ ChatRaises
    \/ ClearHistory

HandlerSpec == HandlerInit /\ [][HandlerNext]_vars

-----------------------------------------------------------------------------
(* Properties of NewsletterDetector *)

\* the detector as its constructor builds it from the configured thresholds
Constructed ==
    NewsletterDetector(config.newsletter_threshold, config.promotional_threshold,
                       config.quality_threshold)

\* the messages of the pairs of a result list
Returned(results) == {results[k].email : k \in 1..Len(results)}

\* the text after the last '@' of a sender address, lower-cased
SenderDomain(address) ==
    IF \E i \in 1..Len(address) : address[i] = "@"
    THEN Join(LowerSeq(SubSeq(address, LastAt(address) + 1, Len(address))))
    ELSE ""

\* C1: whatever the message and the thresholds, the verdict detect returns
\* has is_worth_reading exactly when the newsletter score is at least the
\* newsletter threshold, the promotional score is below the promotional
\* threshold and the quality score is at least the quality threshold
AcceptanceRule ==
    ret.call = "detect" =>
        (ret.verdict.is_worth_reading <=>
            /\ ret.verdict.newsletter_confidence >= detector.newsletter_threshold
            /\ ret.verdict.promotional_score < detector.promotional_threshold
            /\ ret.verdict.quality_score >= detector.quality_threshold)

\* a message accepted with its newsletter score and its quality score both
\* exactly at their thresholds
AcceptedAtThresholds ==
    /\ ret.call = "detect"
    /\ ret.verdict.is_worth_reading
    /\ ret.verdict.newsletter_confidence = detector.newsletter_threshold
    /\ ret.verdict.quality_score = detector.quality_threshold
    /\ detector.quality_threshold > 0


ConservativeOnError ==
    /\ ret.call = "detect"
    /\ emails[ret.index].broken \in {"sender", "sender_email", "subject", "body_text"}
    => ret.verdict = ErrorResult("cannot read " \o emails[ret.index].broken)

\* C5: filter_newsletters raises nothing and classifies every message of
\* the list: a message that qualifies is returned wherever it stands in the
\* list, after a message whose classification failed too
FilterClassifiesAll ==
    ret.call = "filter" =>
        /\ ret.exc = ""
        /\ Len(ret.verdicts) = Len(emails)
        /\ \A i \in 1..Len(emails) :
              (IF ret.quality_only THEN ret.verdicts[i].is_worth_reading
               ELSE ret.verdicts[i].is_newsletter)
              => \E k \in 1..Len(ret.results) :
                    /\ ret.results[k].email = emails[i]
                    /\ ret.results[k].result = ret.verdicts[i]

\* a qualifying message returned though a message with an unreadable
\* attribute stands before it in the list
ReturnedAfterFailure ==
    /\ ret.call = "filter"
    /\ \E i \in 1..Len(emails) :
          /\ emails[i].broken = ""
          /\ \E j \in 1..(i - 1) : emails[j].broken # ""
          /\ emails[i] \in Returned(ret.results)

FilterSorted ==
    ret.call = "filter" =>
        \A k \in 1..(Len(ret.results) - 1) :
            ret.results[k].result.quality_score
                >= ret.results[k + 1].result.quality_score

\* the message of the highest quality score stood last in the list
LastComesFirst ==
    /\ ret.call = "filter"
    /\ Len(emails) >= 2
    /\ Len(ret.results) = Len(emails)
    /\ ret.results[1].email = emails[Len(emails)]
    /\ ret.results[1].result.quality_score > ret.results[2].result.quality_score

\* the quality thresholds that detectors are compared under
QualityThresholdRange == {0, 20, DEFAULT_QUALITY_THRESHOLD, 40, 70, SCORE_MAX}

\* the messages filter_newsletters returns, with quality_only, under the
\* quality threshold q
ReturnedUnder(q) ==
    Returned(filter_newsletters([detector EXCEPT !.quality_threshold = q],
                                emails, TRUE).results)

\* C8: with quality_only, a detector that differs in nothing but a higher
\* quality threshold returns a subset of the messages returned, and one
\* with a lower quality threshold returns a superset
QualityMonotonic ==
    ret.call = "filter" /\ ret.quality_only =>
        \A q \in QualityThresholdRange :
            /\ q >= detector.quality_threshold
               => ReturnedUnder(q) \subseteq Returned(ret.results)
            /\ q <= detector.quality_threshold
               => Returned(ret.results) \subseteq ReturnedUnder(q)

\* raising the quality threshold removes one of several returned messages
RaisingRemoves ==
    /\ ret.call = "filter"
    /\ ret.quality_only
    /\ Cardinality(Returned(ret.results)) >= 2
    /\ \E q \in QualityThresholdRange :
          /\ q > detector.quality_threshold
          /\ ReturnedUnder(q) # {}
          /\ ReturnedUnder(q) # Returned(ret.results)

-----------------------------------------------------------------------------
(* Properties of TextChunker *)

\* the sentences of all windows, in the order of the windows
RECURSIVE CoreSentences(_)
CoreSentences(windows) ==
    IF windows = <<>> THEN <<>>
    ELSE windows[1].core \o CoreSentences(Tail(windows))

\* C2: when 0 < overlap < chunk_size, every chunk that chunk returns has
\* at most chunk_size characters, unless a sentence of more than chunk_size
\* characters is in it
WindowSizeBound ==
    out.called /\ 0 < chunker.overlap /\ chunker.overlap < chunker.chunk_size =>
        \A i \in 1..Len(out.chunks) :
            \/ Len(out.chunks[i].text) <= chunker.chunk_size
            \/ /\ out.windows # <<>>
               /\ \E k \in 1..Len(out.windows[i].core) :
                     Len(out.windows[i].core[k]) > chunker.chunk_size

\* C10: for a text of more than chunk_size characters, the sentences
\* appended to the chunks, taken chunk after chunk without the overlap text
\* a chunk starts with, are the sentences of the text, each once and in
\* their order; every chunk holds a sentence, the last one too, and its text
\* is its overlap text and its sentences joined by spaces, stripped
WindowsCoverSentences ==
    out.called /\ Len(content.text) > chunker.chunk_size =>
        /\ CoreSentences(out.windows) = split_into_sentences(content.text)
        /\ Len(out.chunks) = Len(out.windows)
        /\ \A i \in 1..Len(out.windows) :
              /\ out.windows[i].core # <<>>
              /\ out.chunks[i].text =
                    Strip(JoinSpace((IF out.windows[i].seed = <<>> THEN <<>>
                                     ELSE <<out.windows[i].seed>>)
                                    \o out.windows[i].core))

\* a text cut into two chunks, the second one made of an overlap text and
\* the last sentence of the text
SeededWindows ==
    /\ out.called
    /\ Len(content.text) > chunker.chunk_size
    /\ Len(split_into_sentences(content.text)) = 3
    /\ Len(out.windows) = 2
    /\ out.windows[2].seed # <<>>
    /\ Len(out.windows[2].core) = 1

\* s is a suffix of t
IsSuffix(s, t) ==
    /\ Len(s) <= Len(t)
    /\ SubSeq(t, Len(t) - Len(s) + 1, Len(t)) = s

\* the chunk of a window as it is joined, before it is stripped
JoinedWindow(window) ==
    JoinSpace((IF window.seed = <<>> THEN <<>> ELSE <<window.seed>>) \o window.core)

\* C11: when 0 < overlap < chunk_size, the overlap text a chunk starts with
\* is a suffix of the text of the chunk returned before it and has at most
\* overlap characters
SeedIsSuffixOfText ==
    out.called /\ 0 < chunker.overlap /\ chunker.overlap < chunker.chunk_size =>
        \A i \in 2..Len(out.windows) :
            /\ IsSuffix(out.windows[i].seed, out.chunks[i - 1].text)
            /\ Len(out.windows[i].seed) <= chunker.overlap

\* C11, amended: when 0 < overlap < chunk_size, the overlap text a chunk
\* starts with is a suffix of the chunk saved before it as it was joined,
\* which the text returned for that chunk is once stripped, and has at most
\* overlap characters
SeedIsSuffixOfJoined ==
    out.called /\ 0 < chunker.overlap /\ chunker.overlap < chunker.chunk_size =>
        \A i \in 2..Len(out.windows) :
            /\ IsSuffix(out.windows[i].seed, JoinedWindow(out.windows[i - 1]))
            /\ out.chunks[i - 1].text = Strip(JoinedWindow(out.windows[i - 1]))
            /\ Len(out.windows[i].seed) <= chunker.overlap

\* an overlap text of overlap characters, cut from a longer chunk, that
\* starts with a space, and is longer than the text returned for that chunk
SeedLongerThanText ==
    /\ out.called
    /\ 0 < chunker.overlap /\ chunker.overlap < chunker.chunk_size
    /\ \E i \in 2..Len(out.windows) :
          /\ Len(out.windows[i].seed) = chunker.overlap
          /\ Len(JoinedWindow(out.windows[i - 1])) > chunker.overlap
          /\ out.windows[i].seed[1] = " "
          /\ Len(out.windows[i].seed) > Len(out.chunks[i - 1].text)

\* C12: chunking the same content again with the same chunker returns as
\* many chunks with the same id, text and chunk_index; the id of a chunk is
\* made of source_email_id and chunk_index alone, so that no two chunks of a
\* content have the same id
ChunkingRepeats ==
    /\ [][out.called => out'.chunks = out.chunks]_vars
    /\ [][chunker' = chunker /\ content' = content]_vars
    /\ [](out.called =>
            \A i \in 1..Len(out.chunks) :
                /\ out.chunks[i].id =
                      content.source_email_id \o "_"
                          \o ToString(out.chunks[i].chunk_index)
                /\ \A j \in 1..Len(out.chunks) :
                      i # j => out.chunks[i].id # out.chunks[j].id)

\* a content chunked twice into three chunks
ChunkedTwice ==
    /\ out.runs = 2
    /\ Len(out.chunks) = 3
    /\ out.chunks[1].text # out.chunks[2].text

\* C13: the n chunks that chunk returns have the chunk_index values 0, 1,
\* ..., n-1 in the order they are returned, and total_chunks n each
ChunkIndexing ==
    out.called =>
        \A i \in 1..Len(out.chunks) :
            /\ out.chunks[i].chunk_index = i - 1
            /\ out.chunks[i].total_chunks = Len(out.chunks)

\* three chunks returned, the last one with chunk_index 2 and total_chunks 3
ThreeChunksIndexed ==
    /\ out.called
    /\ Len(out.chunks) = 3
    /\ out.chunks[3].chunk_index = 2
    /\ out.chunks[3].total_chunks = 3

\* C14: for a text of at most chunk_size characters chunk returns one chunk,
\* with chunk_index 0, total_chunks 1 and the whole text as its text; for a
\* longer text it returns the chunks its for loop makes of the sentences of
\* the text, their texts stripped
SingleChunkPath ==
    out.called =>
        IF Len(content.text) <= chunker.chunk_size
        THEN /\ Len(out.chunks) = 1
             /\ out.chunks[1].chunk_index = 0
             /\ out.chunks[1].total_chunks = 1
             /\ out.chunks[1].text = content.text
             /\ out.windows = <<>>
        ELSE /\ Len(out.chunks) = Len(out.windows)
             /\ CoreSentences(out.windows) = split_into_sentences(content.text)
             /\ \A i \in 1..Len(out.chunks) :
                   out.chunks[i].text = Strip(JoinedWindow(out.windows[i]))

\* a text of exactly chunk_size characters that starts with a space,
\* returned whole as the only chunk
WholeTextAtChunkSize ==
    /\ out.called
    /\ Len(content.text) = chunker.chunk_size
    /\ content.text[1] = " "
    /\ Len(out.chunks) = 1
    /\ out.chunks[1].text = content.text

\* C15: a sentence of more than chunk_size characters is in one chunk, whole
\* and as the only sentence appended to it: the text of the chunk ends with
\* the sentence, and nothing but an overlap text stands before it
OversizedSentenceAlone ==
    out.called /\ Len(content.text) > chunker.chunk_size =>
        /\ CoreSentences(out.windows) = split_into_sentences(content.text)
        /\ \A i \in 1..Len(out.windows) :
              (\E k \in 1..Len(out.windows[i].core) :
                    Len(out.windows[i].core[k]) > chunker.chunk_size)
              => /\ Len(out.windows[i].core) = 1
                 /\ IsSuffix(out.windows[i].core[1], out.chunks[i].text)
                 /\ JoinedWindow(out.windows[i]) =
                       IF out.windows[i].seed = <<>> THEN out.windows[i].core[1]
                       ELSE out.windows[i].seed \o <<" ">> \o out.windows[i].core[1]

\* a sentence of more than chunk_size characters between two chunks of
\* shorter sentences, alone in its chunk after an overlap text
OversizedBetweenChunks ==
    /\ out.called
    /\ Len(out.windows) = 3
    /\ Len(out.windows[1].core) = 2
    /\ out.windows[2].seed # <<>>
    /\ Len(out.windows[2].core) = 1
    /\ Len(out.windows[2].core[1]) > chunker.chunk_size
    /\ Len(out.windows[3].core[1]) <= chunker.chunk_size

\* C16: chunk returns no chunk for a content with an empty text
EmptyTextNoChunks ==
    out.called /\ content.text = <<>> => out.chunks = <<>>

\* C17: no chunker exists, and chunk is run with none, the overlap of which
\* is not positive or not below its chunk_size
ChunkerWellConfigured ==
    out.called => (0 < chunker.overlap /\ chunker.overlap < chunker.chunk_size)

-----------------------------------------------------------------------------
(* Properties of the scores of NewsletterDetector *)

\* the reasons that the four rules of the newsletter score give
NewsletterReasons ==
    {"Has unsubscribe header", "Newsletter sender pattern", "Newsletter subject pattern"}
    \cup {"Newsletter platform: " \o d : d \in detector.newsletter_domains}

\* the number of rules of the newsletter score that fired for a verdict
SignalsFired(verdict) ==
    Cardinality({i \in 1..Len(verdict.reasons) : verdict.reasons[i] \in NewsletterReasons})

\* C19: under the default newsletter threshold a message is a newsletter
\* exactly when at least two of the four rules of the newsletter score fire;
\* one rule alone does not make it one
NeedsTwoSignals ==
    ret.call = "detect"
    /\ detector.newsletter_threshold = DEFAULT_NEWSLETTER_THRESHOLD
    => (ret.verdict.is_newsletter <=> SignalsFired(ret.verdict) >= 2)

\* a newsletter by the two rules of the least weight, the sender pattern
\* and the subject pattern
TwoWeakestSignals ==
    /\ ret.call = "detect"
    /\ detector.newsletter_threshold = DEFAULT_NEWSLETTER_THRESHOLD
    /\ ret.verdict.is_newsletter
    /\ SignalsFired(ret.verdict) = 2
    /\ ret.verdict.newsletter_confidence = W_SENDER_PATTERN + W_SUBJECT_PATTERN

\* the text before the first '@' of a sender address, lower-cased, and
\* the address if it holds no '@'
LocalPart(address) ==
    IF \E i \in 1..Len(address) : address[i] = "@"
    THEN Join(LowerSeq(SubSeq(address, 1,
                  SetMin({i \in 1..Len(address) : address[i] = "@"}) - 1)))
    ELSE Join(LowerSeq(address))

\* the promotional sender rule fired for a verdict
PromotionalSenderFired(verdict) ==
    \E i \in 1..Len(verdict.reasons) :
        verdict.reasons[i] \in
            {"Promotional sender: " \o p : p \in detector.promotional_senders}

\* C20: for a readable message of a sender that is not blocked, the
\* promotional sender rule fires exactly when the local part of the sender
\* address is a promotional sender word; the domain does not make it fire
LocalPartDecides ==
    /\ ret.call = "detect"
    /\ emails[ret.index].broken = ""
    /\ SenderDomain(emails[ret.index].sender_email) \notin detector.blacklisted_domains
    => (PromotionalSenderFired(ret.verdict)
           <=> LocalPart(emails[ret.index].sender_email) \in detector.promotional_senders)

-----------------------------------------------------------------------------
(* Properties of sync_newsletters *)

\* the stages in the order they are to run
StageOrder == <<"classify", "extract", "segment", "embed", "store">>

\* the message of an id was fetched and its verdict is worth reading
AcceptedId(id) ==
    \E i \in 1..Len(emails) :
        /\ emails[i].id = id
        /\ detect(detector, emails[i]).is_worth_reading

\* C18: the stages of a run of sync_newsletters run in the order classify,
\* extract, segment, embed, store; every message passed to the extraction,
\* every chunk embedded and every chunk stored is of a fetched message
\* whose verdict is worth reading
SyncOnlyAccepted ==
    /\ sync.stages = SubSeq(StageOrder, 1, Len(sync.stages))
    /\ \A k \in 1..Len(sync.passed) : AcceptedId(sync.passed[k].id)
    /\ \A k \in 1..Len(sync.chunks) : AcceptedId(sync.chunks[k].source_email_id)
    /\ \A k \in 1..Len(sync.collection) : AcceptedId(sync.collection[k].source_email_id)

\* a run that went through the five stages and stored chunks of two
\* messages, one of them of two chunks, while a third message was rejected
SyncStoredTwo ==
    /\ sync.pc = "returned"
    /\ sync.stages = StageOrder
    /\ \E i \in 1..Len(emails) : ~AcceptedId(emails[i].id)
    /\ \E k, l \in 1..Len(sync.collection) :
          /\ sync.collection[k].source_email_id # sync.collection[l].source_email_id
          /\ sync.collection[k].total_chunks = 2

-----------------------------------------------------------------------------
(* Properties of the promotional and the quality score *)

\* the words of the vocabulary that are a price or a percentage off
PriceTokens == {"$5", "50% off"}

\* the subject holds a price or a percentage off
HasPriceToken(subject) ==
    \E i \in 1..Len(subject) : Lower(subject[i]) \in PriceTokens

\* a reason is in the reasons of a verdict
HasReason(verdict, reason) ==
    \E i \in 1..Len(verdict.reasons) : verdict.reasons[i] = reason

\* C21: for a readable message of a sender that is not blocked, the price
\* rule of the promotional score fires exactly when the subject holds a
\* price or a percentage off
PriceTokenDecides ==
    /\ ret.call = "detect"
    /\ emails[ret.index].broken = ""
    /\ SenderDomain(emails[ret.index].sender_email) \notin detector.blacklisted_domains
    => (HasReason(ret.verdict, "Price/discount in subject")
           <=> HasPriceToken(emails[ret.index].subject))

\* the number of words of a whole body
BodyWords(body) ==
    LET Sum[i \in 0..Len(body)] ==
            IF i = 0 THEN 0
            ELSE Sum[i - 1] + body[i].n * Cardinality(TokenWordStarts(body[i].w))
    IN Sum[Len(body)]

\* the length term of the quality score for a number of words
LengthTerm(words) ==
    IF words > WORDS_SUBSTANTIAL THEN W_SUBSTANTIAL
    ELSE IF words > WORDS_DECENT THEN W_DECENT
    ELSE IF words < WORDS_SHORT THEN 0 - W_SHORT_PENALTY
    ELSE 0

\* the quality score before its length term: the rules of the platform and
\* of the subject, a body of WORDS_SHORT words adding nothing
QualityBase(d, email) ==
    quality_signals(d, extract_domain(LowerSeq(email.sender_email)),
                    check_patterns(email.subject, d.quality_subject_patterns),
                    WORDS_SHORT).score

\* C22: the quality score of a readable message is the score of its other
\* rules plus the length term of the number of words of its whole body,
\* clamped to [0, 1]
LengthOfWholeBody ==
    ret.call = "detect" /\ emails[ret.index].broken = ""
    => ret.verdict.quality_score =
           Max(Min(QualityBase(detector, emails[ret.index])
                   + LengthTerm(BodyWords(emails[ret.index].body_text)), SCORE_MAX), 0)

\* the weight of a reason if it is in the reasons of a verdict
WeightIfReason(verdict, reason, weight) ==
    IF HasReason(verdict, reason) THEN weight ELSE 0

\* the quality score that the reasons of a verdict account for
ExplainedQuality(d, email, verdict) ==
    WeightIfReason(verdict, "Quality newsletter platform", W_WHITELISTED)
    + WeightIfReason(verdict, "Quality subject",
          W_QUALITY_SUBJECT
          * Min(Len(check_patterns(email.subject, d.quality_subject_patterns).matches),
                MAX_QUALITY_SUBJECT_HITS))
    + WeightIfReason(verdict, "Substantial content", W_SUBSTANTIAL)
    + WeightIfReason(verdict, "Decent content length", W_DECENT)

\* C23: the reasons of the verdict of a readable message account for every
\* change of its quality score: the score is the sum of the weights of the
\* quality rules named in the reasons, capped at 1
ReasonsAccountForQuality ==
    ret.call = "detect" /\ emails[ret.index].broken = ""
    => ret.verdict.quality_score =
           Min(ExplainedQuality(detector, emails[ret.index], ret.verdict), SCORE_MAX)

\* headers that are None, empty or of an unexpected structure
MalformedHeaders == {HeadersNone, HeadersNumber, HeadersEmptyList, HeadersOddList}

\* C24: a readable message with malformed or missing headers, an empty
\* body, an empty sender or an empty subject gets the verdict of the same
\* message with well-formed headers without an unsubscribe entry, with a
\* body of 150 plain words, with a plain sender or with a plain subject:
\* what is absent adds nothing to a score and subtracts nothing from it
AbsentSignalsAreZero ==
    ret.call = "detect" /\ emails[ret.index].broken = ""
    => /\ emails[ret.index].headers \in MalformedHeaders
          => ret.verdict = detect(detector, [emails[ret.index] EXCEPT !.headers = HeadersPost])
       /\ emails[ret.index].body_text = BodyEmpty
          => ret.verdict = detect(detector, [emails[ret.index] EXCEPT !.body_text = BodyMedium])
       /\ emails[ret.index].sender = <<>>
          => ret.verdict = detect(detector, [emails[ret.index] EXCEPT !.sender = SenderPlain])
       /\ emails[ret.index].subject = <<>>
          => ret.verdict = detect(detector, [emails[ret.index] EXCEPT !.subject = SubjectPlain])

\* the three scores of a verdict lie in [0, 1]
ScoresWithin(verdict) ==
    /\ verdict.newsletter_confidence \in 0..SCORE_MAX
    /\ verdict.promotional_score \in 0..SCORE_MAX
    /\ verdict.quality_score \in 0..SCORE_MAX

\* C25: the three scores of every verdict that detect returns, to its
\* caller or to filter_newsletters, and of the error verdict lie in [0, 1]
ScoresInRange ==
    /\ ret.call = "detect" => ScoresWithin(ret.verdict)
    /\ \A i \in 1..Len(ret.verdicts) : ScoresWithin(ret.verdicts[i])
    /\ ScoresWithin(ErrorResult("Exception"))

\* a message all four newsletter rules fire for, their weights adding up to
\* more than 1, and whose quality rules add up to less than 0
CappedAndFloored ==
    /\ ret.call = "detect"
    /\ emails[ret.index].broken = ""
    /\ SignalsFired(ret.verdict) = 4
    /\ ret.verdict.newsletter_confidence = SCORE_MAX
    /\ QualityBase(detector, emails[ret.index])
           + LengthTerm(BodyWords(emails[ret.index].body_text)) < 0
    /\ ret.verdict.quality_score = 0

-----------------------------------------------------------------------------
(* Properties of the windows of TextChunker.chunk *)

\* C26: every window that chunk starts after it closed one begins with a
\* non-empty overlap text taken from the window closed
EveryWindowSeeded ==
    out.called => \A i \in 2..Len(out.windows) : out.windows[i].seed # <<>>

\* C27: a chunk is closed before a sentence only when the sentence does not
\* fit: the text returned for a chunk that is not the last, a space and the
\* first sentence of the next chunk are more than chunk_size characters
GreedyByText ==
    out.called =>
        \A i \in 1..(Len(out.windows) - 1) :
            Len(out.chunks[i].text) + 1 + Len(out.windows[i + 1].core[1])
                > chunker.chunk_size

\* C27, of the chunk as it was joined, which the text returned is once
\* stripped: a chunk that is not the last, a space and the first sentence
\* of the next chunk are more than chunk_size characters
GreedyByJoined ==
    out.called =>
        \A i \in 1..(Len(out.windows) - 1) :
            /\ Len(JoinedWindow(out.windows[i])) + 1 + Len(out.windows[i + 1].core[1])
                   > chunker.chunk_size
            /\ out.chunks[i].text = Strip(JoinedWindow(out.windows[i]))

\* a chunk closed before a sentence that fits after the text returned for
\* the chunk, the chunk starting with an overlap text that begins with
\* spaces, but not after the chunk as it was joined
RoomOnlyAfterStrip ==
    /\ out.called
    /\ \E i \in 1..(Len(out.windows) - 1) :
          /\ out.windows[i].seed # <<>>
          /\ Len(out.chunks[i].text) + 1 + Len(out.windows[i + 1].core[1])
                 <= chunker.chunk_size
          /\ Len(JoinedWindow(out.windows[i])) + 1 + Len(out.windows[i + 1].core[1])
                 > chunker.chunk_size

\* C29: chunk returns at most as many chunks as the text has sentences,
\* for every chunk_size and overlap, those with overlap >= chunk_size too:
\* every chunk holds a sentence that no chunk before it holds
WindowsAtMostUnits ==
    out.called => Len(out.chunks) <= Len(split_into_sentences(content.text))

-----------------------------------------------------------------------------
(* Properties of VectorStore.add_chunks *)

\* the chunks of a list that have an embedding
Embedded(chunks) == {chunks[k] : k \in {j \in 1..Len(chunks) : chunks[j].embedding # "None"}}

\* the documents of a collection
Documents(collection) == {collection[k] : k \in 1..Len(collection)}

\* C28: a call of add_chunks after the first one with the same chunks
\* leaves the collection as the first call left it; the collection holds
\* the chunks that have an embedding, one document an id, and no chunk
\* whose embedding is None, and the number returned is the number of the
\* chunks that have an embedding
UpsertIdempotent ==
    store.calls >= 1 =>
        /\ store.collection = store.once
        /\ Embedded(store.chunks) \subseteq Documents(store.collection)
        /\ \A k \in 1..Len(store.chunks) :
              store.chunks[k].embedding = "None"
                  => store.chunks[k] \notin Documents(store.collection)
        /\ \A k, l \in 1..Len(store.collection) :
              store.collection[k].id = store.collection[l].id => k = l
        /\ store.added = Cardinality(Embedded(store.chunks))

\* add_chunks called twice with three chunks, the embedding of one of them
\* None, on a collection that held an older document of the first chunk
AddedTwice ==
    /\ store.calls = 2
    /\ Len(store.chunks) = 3
    /\ store.added = 2
    /\ store.chunks[1].embedding # "None"
    /\ Len(store.collection) = 3
    /\ \E k \in 1..Len(store.collection) : store.collection[k].id = "m0_0"
    /\ \E k \in 1..Len(store.collection) : store.collection[k] = store.chunks[1]

-----------------------------------------------------------------------------
(* Properties of ConversationHandler *)

\* the last n turns of a log, and all of them if there are fewer
MostRecent(log, n) ==
    IF Len(log) > n THEN SubSeq(log, Len(log) - n + 1, Len(log)) ELSE log

\* history holds at most max_history turns, the most recent ones of those
\* appended since it was last emptied, in the order they were appended
HistoryIsRecent ==
    /\ Len(handler.history) <= handler.max_history
    /\ handler.history = MostRecent(handler.log, handler.max_history)

\* the last call of chat appended its turn, and no other, to the history
\* it found
LastTurnAppended ==
    handler.history =
        MostRecent(Append(handler.last.before,
                          Turn(handler.last.message, handler.last.answer)),
                   handler.max_history)

====
